---- MODULE Spec2Model ----
(***************************************************************************)
(* The matching engine of src/orderbook.py (class OrderBook) as a state    *)
(* machine.  One action per public call; a call is evaluated to completion *)
(* (the whole stop cascade included) by operators that follow the Python   *)
(* functions statement by statement.  Python objects that are shared by    *)
(* reference are kept in tables: Order objects in ord (keyed by id), the   *)
(* deques of the price levels in deq (keyed by an object identity) while a *)
(* call is running.                                                        *)
(***************************************************************************)
EXTENDS Integers, Sequences, FiniteSets, TLC

\* ---------------------------------------------------------------- bounds
MaxOrders == 3      \* orders created and submitted in one behaviour
MaxPrice == 2       \* prices and stop prices are 1..MaxPrice
MaxQty == 2         \* quantities are 1..MaxQty
MaxCascade == 4     \* orders in one behaviour of the stop-cascade specification
MaxLadderCalls == 3 \* calls made after the ladder of resting orders is built
MaxAddCalls == 4    \* add_limit calls, and add_order calls, in one behaviour
MaxDepth == 2       \* snapshot is called with depth 1..MaxDepth

\* the ladder specification uses one price more than the others
LadderPrice == MaxPrice + 1

\* deque(maxlen=10) and depth_levels=50 of orderbook_full.OrderBook
TradesMaxLen == 10
DepthLevels == 50

\* ------------------------------------------------------------ vocabulary
None == 0           \* an Optional field that is not set (prices are >= 1)

BUY == "BUY"
SELL == "SELL"
Side == {BUY, SELL}

LIMIT == "LIMIT"
MARKET == "MARKET"
IOC == "IOC"
FOK == "FOK"
STOP == "STOP"
STOP_LIMIT == "STOP_LIMIT"
ICEBERG == "ICEBERG"
OrderType == {LIMIT, MARKET, IOC, FOK, STOP, STOP_LIMIT, ICEBERG}

NoExc == "none"     \* no exception is propagating

VARIABLES
    ord,            \* the Order objects created so far: id -> fields
    buys,           \* self.buys: price -> queue (sequence of order ids)
    sells,          \* self.sells
    buy_prices,     \* self.buy_prices: list of prices
    sell_prices,    \* self.sell_prices
    orders,         \* self.orders: the ids that are keys of the order table
    trades,         \* self.trades: the trade log
    stop_orders,    \* self.stop_orders: list of parked order ids
    seq,            \* _seq: the next value of the global counter
    ret,            \* outcome of the last call: the order, return value or exception
    op,             \* the method the last call was made to
    rows,           \* what the last call returned if it was a snapshot call
    resubmitted,    \* history: the ids _trigger_stop_orders passed to submit_order
    cause,          \* history: re-submitted id -> the incoming order of the trade that
                    \* triggered it
    grid,           \* the OrderBook of orderbook_grid_ui, its orders and last results
    full            \* the OrderBook of orderbook_full, its log and last call

vars == <<ord, buys, sells, buy_prices, sell_prices, orders, trades, stop_orders, seq, ret,
          op, rows, resubmitted, cause, grid, full>>

\* the variables of the engine of orderbook.py
book_vars == <<ord, buys, sells, buy_prices, sell_prices, orders, trades, stop_orders, seq, ret,
               op, rows, resubmitted, cause>>

\* ---------------------------------------------------------------- helpers
Range(f) == {f[x] : x \in DOMAIN f}

Min(a, b) == IF a <= b THEN a ELSE b

Max(a, b) == IF a >= b THEN a ELSE b

RECURSIVE SumQty(_)
SumQty(ts) == IF ts = <<>> THEN 0 ELSE Head(ts).quantity + SumQty(Tail(ts))

DelKey(f, k) == [x \in DOMAIN f \ {k} |-> f[x]]

\* list.remove(x) / deque.remove(x): drops the first element equal to x
RECURSIVE RemoveFirst(_, _)
RemoveFirst(l, x) ==
    IF l = <<>> THEN <<>>
    ELSE IF Head(l) = x THEN Tail(l)
    ELSE <<Head(l)>> \o RemoveFirst(Tail(l), x)

\* bisect.bisect_right(a, x, lo, hi)
RECURSIVE bisect_right(_, _, _, _)
bisect_right(a, x, lo, hi) ==
    IF lo < hi
    THEN LET mid == (lo + hi) \div 2 IN
         IF x < a[mid + 1] THEN bisect_right(a, x, lo, mid)
         ELSE bisect_right(a, x, mid + 1, hi)
    ELSE lo

\* bisect.insort(a, x)
insort(a, x) ==
    LET lo == bisect_right(a, x, 0, Len(a)) IN
    SubSeq(a, 1, lo) \o <<x>> \o SubSeq(a, lo + 1, Len(a))

\* sorted(l, reverse=True): insertion of each element, stable
RECURSIVE sorted_reverse(_)
sorted_reverse(l) ==
    IF l = <<>> THEN <<>>
    ELSE LET rest == sorted_reverse(SubSeq(l, 1, Len(l) - 1))
             x == l[Len(l)]
             k == Cardinality({j \in 1..Len(rest) : rest[j] >= x})
         IN SubSeq(rest, 1, k) \o <<x>> \o SubSeq(rest, k + 1, Len(rest))

\* ------------------------------------------------------------------ Order
\* Order(...): id and timestamp are drawn from _seq, in this order
NewOrder(n, side, type, quantity, price, stop_price, display_size) ==
    [id |-> n, side |-> side, quantity |-> quantity, price |-> price, type |-> type,
     timestamp |-> n + 1, filled |-> 0, stop_price |-> stop_price,
     display_size |-> display_size, reserve |-> 0]

remaining(o) == Max(0, o.quantity - o.filled)

fill(o, qty) == [o EXCEPT !.filled = @ + Min(qty, remaining(o))]

\* -------------------------------------------------------------- OrderBook
\* The engine while a call runs: the fields of self, the Order objects, the
\* deque objects (buys and sells hold references into deq), the exception.
book(s, side) == IF side = BUY THEN s.buys ELSE s.sells

price_list(s, side) == IF side = BUY THEN s.buy_prices ELSE s.sell_prices

with_book(s, side, b) == IF side = BUY THEN [s EXCEPT !.buys = b] ELSE [s EXCEPT !.sells = b]

with_price_list(s, side, l) ==
    IF side = BUY THEN [s EXCEPT !.buy_prices = l] ELSE [s EXCEPT !.sell_prices = l]

raise(s, e) == [s EXCEPT !.exc = e]

\* faulty variant: the order is put at the front of its queue (appendleft)
enqueue_Front(q, id) == <<id>> \o q

\* book[order.price].append(order)
enqueue(q, id) == Append(q, id)

_add_limit_order_to_book(s, id) ==
    LET o == s.ord[id]
        s1 == IF o.price \notin DOMAIN book(s, o.side)
              THEN LET d == s.ndeq + 1
                       sa == [s EXCEPT !.ndeq = d, !.deq = @ @@ (d :> <<>>)]
                       sb == with_book(sa, o.side, book(sa, o.side) @@ (o.price :> d))
                   IN with_price_list(sb, o.side, insort(price_list(sb, o.side), o.price))
              ELSE s
        d1 == book(s1, o.side)[o.price]
    IN [s1 EXCEPT !.deq[d1] = enqueue(@, id), !.orders = @ \cup {id}]

_best_sell_prices(s) == s.sell_prices

_best_buy_prices(s) == sorted_reverse(s.buy_prices)

\* faulty variant: a trade exactly at the stop price does not trigger
triggers_Strict(o, last_price) ==
    \/ o.side = BUY /\ last_price > o.stop_price
    \/ o.side = SELL /\ last_price < o.stop_price

\* the two tests of the loop over self.stop_orders
triggers(o, last_price) ==
    \/ o.side = BUY /\ last_price >= o.stop_price
    \/ o.side = SELL /\ last_price <= o.stop_price

\* faulty variant: a triggered order keeps its stop type
activate_Keep(o) == o

\* the conversion of a triggered order
activate(o) ==
    IF o.type = STOP THEN [o EXCEPT !.type = MARKET, !.price = None]
    ELSE IF o.type = STOP_LIMIT THEN [o EXCEPT !.type = LIMIT]
    ELSE o

\* faulty variant: the Sell branch of the crossing test repeats the Buy comparison
price_ok_SellAsBuy(incoming, price) ==
    IF incoming.type \in {MARKET, IOC, FOK} THEN TRUE
    ELSE price <= incoming.price

\* the crossing test of _match
price_ok(incoming, price) ==
    IF incoming.type \in {MARKET, IOC, FOK} THEN TRUE
    ELSE IF incoming.side = BUY THEN price <= incoming.price
    ELSE price >= incoming.price

\* faulty variant: a filled order still queued is not stepped over
skip_resting_Never(resting) == FALSE

\* a resting order the scan of a level steps over
skip_resting(resting) == remaining(resting) <= 0

\* faulty variant: the trade quantity ignores what the resting order has left
match_qty_Incoming(incoming, resting) == remaining(incoming)

match_qty(incoming, resting) == Min(remaining(incoming), remaining(resting))

\* faulty variant: a priced aggressor trades at its own limit price
trade_price_of_Incoming(incoming, resting) ==
    IF incoming.price # None THEN incoming.price ELSE resting.price

trade_price_of(incoming, resting) == resting.price

\* Trade(...): timestamp from _seq.  aggressor, level and live are history
\* fields: the incoming order, the price level being scanned, the orders of
\* its queue that had remaining > 0 when the trade was made, and the orders
\* with remaining > 0 queued at a better price of that side at that moment.
Trade(n, incoming, resting, price, qty, level, live, ahead) ==
    [buy_order_id |-> IF incoming.side = BUY THEN incoming.id ELSE resting.id,
     sell_order_id |-> IF incoming.side = BUY THEN resting.id ELSE incoming.id,
     price |-> price, quantity |-> qty, timestamp |-> n,
     aggressor |-> incoming.id, level |-> level, live |-> live, ahead |-> ahead]

\* faulty variant: only Stop orders are parked, StopLimit orders are matched at once
is_stop_type_StopOnly(o) == o.type = STOP

\* faulty variant: a quantity of 0 passes the first test
bad_quantity_Negative(o) == o.quantity < 0

\* the tests of submit_order
bad_quantity(o) == o.quantity <= 0

\* faulty variant: only StopLimit orders are parked, Stop orders are matched at once
is_stop_type_LimitOnly(o) == o.type = STOP_LIMIT

is_stop_type(o) == o.type \in {STOP, STOP_LIMIT}

bad_display_size(o) == o.display_size = None \/ o.display_size <= 0

slice_iceberg(o) ==
    [o EXCEPT !.reserve = o.quantity - o.display_size, !.quantity = o.display_size]

\* faulty variant: only IOC orders return before the residual is rested
discards_residual_IocOnly(o) == o.type = IOC

discards_residual(o) == o.type \in {IOC, MARKET}

fok_shortfall(o, ts) == o.type = FOK /\ SumQty(ts) < o.quantity

RECURSIVE submit_order(_, _), _match_level(_, _, _, _, _, _), _match_prices(_, _, _, _, _),
          submit_triggered(_, _, _)

\* for o in triggered: self.submit_order(o)   (the returned lists are dropped)
submit_triggered(s, triggered, k) ==
    IF s.exc # NoExc \/ k > Len(triggered) THEN s
    ELSE submit_triggered(
             submit_order([s EXCEPT !.resubmitted = Append(@, triggered[k])], triggered[k]).s,
             triggered, k + 1)

_trigger_stop_orders(s, last_price) ==
    LET hit(id) == triggers(s.ord[id], last_price)
        miss(id) == ~triggers(s.ord[id], last_price)
        triggered == SelectSeq(s.stop_orders, hit)
        remain == SelectSeq(s.stop_orders, miss)
        by == s.trades[Len(s.trades)].aggressor
    IN submit_triggered(
           [s EXCEPT !.ord = [id \in DOMAIN @ |->
                                 IF id \in Range(triggered) THEN activate(@[id]) ELSE @[id]],
                     !.stop_orders = remain,
                     !.cause = [id \in Range(triggered) |-> by] @@ @],
           triggered, 1)

\* the end of one pass of the while loop, s2 being the engine that
\* _trigger_stop_orders left: drop the resting order if it is filled, else step on
after_trade(s2, inc, price, d, i, ts1, resting) ==
    IF s2.exc # NoExc THEN [s |-> s2, trades |-> ts1]
    ELSE IF remaining(s2.ord[resting]) = 0
    THEN IF resting \notin Range(s2.deq[d])
         THEN [s |-> raise(s2, "ValueError"), trades |-> ts1]
         ELSE _match_level([s2 EXCEPT !.deq[d] = RemoveFirst(@, resting),
                                      !.orders = @ \ {resting}],
                           inc, price, d, i, ts1)
    ELSE _match_level(s2, inc, price, d, i + 1, ts1)

\* one trade of incoming against resting, its stop triggers included
trade_with(s, inc, price, d, i, ts, resting) ==
    LET qty == match_qty(s.ord[inc], s.ord[resting])
        trade_price == trade_price_of(s.ord[inc], s.ord[resting])
        live == {x \in Range(s.deq[d]) : remaining(s.ord[x]) > 0}
        bk == book(s, s.ord[resting].side)
        better(p) == IF s.ord[resting].side = BUY THEN p > price ELSE p < price
        ahead == {x \in UNION {Range(s.deq[bk[p]]) : p \in {p \in DOMAIN bk : better(p)}} :
                     remaining(s.ord[x]) > 0}
        t == Trade(s.seq, s.ord[inc], s.ord[resting], trade_price, qty, price, live, ahead)
    IN after_trade(
           _trigger_stop_orders(
               [s EXCEPT !.ord = [@ EXCEPT ![inc] = fill(@, qty), ![resting] = fill(@, qty)],
                         !.seq = @ + 1,
                         !.trades = Append(@, t)],
               trade_price),
           inc, price, d, i, Append(ts, t), resting)

\* the while loop of _match over the deque q (object d) of the level `price`;
\* i counts from 0 as in the source.  Yields the engine and the local trades.
_match_level(s, inc, price, d, i, ts) ==
    IF ~(i < Len(s.deq[d]) /\ remaining(s.ord[inc]) > 0) THEN [s |-> s, trades |-> ts]
    ELSE IF skip_resting(s.ord[s.deq[d][i + 1]]) THEN _match_level(s, inc, price, d, i + 1, ts)
    ELSE trade_with(s, inc, price, d, i, ts, s.deq[d][i + 1])

\* the end of one pass of the for loop, m being what the while loop left:
\* an emptied level is deleted, then the next price is taken
after_level(m, inc, opp, opp_prices, k, price, d) ==
    IF m.s.exc # NoExc THEN m
    ELSE IF m.s.deq[d] # <<>> THEN _match_prices(m.s, inc, opp_prices, k + 1, m.trades)
    ELSE IF price \notin DOMAIN book(m.s, opp)
    THEN [s |-> raise(m.s, "KeyError"), trades |-> m.trades]
    ELSE IF price \notin Range(price_list(m.s, opp))
    THEN [s |-> raise(with_book(m.s, opp, DelKey(book(m.s, opp), price)), "ValueError"),
          trades |-> m.trades]
    ELSE _match_prices(
             with_price_list(with_book(m.s, opp, DelKey(book(m.s, opp), price)),
                             opp, RemoveFirst(price_list(m.s, opp), price)),
             inc, opp_prices, k + 1, m.trades)

\* the for loop of _match over the copied price list, from its k-th entry
_match_prices(s, inc, opp_prices, k, ts) ==
    IF k > Len(opp_prices) THEN [s |-> s, trades |-> ts]
    ELSE
    LET price == opp_prices[k]
        incoming == s.ord[inc]
        opp == IF incoming.side = BUY THEN SELL ELSE BUY
    IN
    IF remaining(incoming) <= 0 THEN [s |-> s, trades |-> ts]
    ELSE IF ~price_ok(incoming, price) THEN [s |-> s, trades |-> ts]
    ELSE IF price \notin DOMAIN book(s, opp) THEN [s |-> raise(s, "KeyError"), trades |-> ts]
    ELSE after_level(_match_level(s, inc, price, book(s, opp)[price], 0, ts),
                     inc, opp, opp_prices, k, price, book(s, opp)[price])

_match(s, inc) ==
    _match_prices(s, inc,
                  IF s.ord[inc].side = BUY THEN _best_sell_prices(s) ELSE _best_buy_prices(s),
                  1, <<>>)

\* submit_order after the call of _match, m being what _match left
after_match(m, id) ==
    IF m.s.exc # NoExc THEN [s |-> m.s, ret |-> <<>>]
    ELSE IF discards_residual(m.s.ord[id]) THEN [s |-> m.s, ret |-> m.trades]
    ELSE IF fok_shortfall(m.s.ord[id], m.trades) THEN [s |-> m.s, ret |-> <<>>]
    ELSE IF remaining(m.s.ord[id]) > 0
    THEN [s |-> _add_limit_order_to_book(m.s, id), ret |-> m.trades]
    ELSE [s |-> [m.s EXCEPT !.orders = @ \cup {id}], ret |-> m.trades]

\* submit_order: yields the engine (exc set when it raised) and the returned list
submit_order(s, id) ==
    IF bad_quantity(s.ord[id]) THEN [s |-> raise(s, "ValueError"), ret |-> <<>>]
    ELSE IF is_stop_type(s.ord[id])
    THEN [s |-> [s EXCEPT !.stop_orders = Append(@, id)], ret |-> <<>>]
    ELSE IF s.ord[id].type = ICEBERG /\ bad_display_size(s.ord[id])
    THEN [s |-> raise(s, "ValueError"), ret |-> <<>>]
    ELSE after_match(
             _match(IF s.ord[id].type = ICEBERG THEN [s EXCEPT !.ord[id] = slice_iceberg(@)]
                    ELSE s,
                    id),
             id)

\* ---------------------------------------------------------------- calls
\* no snapshot has been returned by the last call
NoRows == [depth |-> 0, bids |-> <<>>, asks |-> <<>>]

\* The engine at the start of a call: every level's deque gets an identity.
Enter(o) ==
    [ord |-> ord @@ (o.id :> o),
     buys |-> [p \in DOMAIN buys |-> 2 * p],
     sells |-> [p \in DOMAIN sells |-> 2 * p + 1],
     deq |-> [d \in {2 * p : p \in DOMAIN buys} \cup {2 * p + 1 : p \in DOMAIN sells} |->
                 IF d % 2 = 0 THEN buys[d \div 2] ELSE sells[d \div 2]],
     ndeq |-> 2 * LadderPrice + 1,
     buy_prices |-> buy_prices, sell_prices |-> sell_prices,
     orders |-> orders, trades |-> trades, stop_orders |-> stop_orders,
     seq |-> o.id + 2, exc |-> NoExc, resubmitted |-> resubmitted, cause |-> cause]

\* The engine a call leaves behind, whether it returned or raised.
Leave(r, id) ==
    LET s == r.s IN
    /\ ret' = [order |-> id, exc |-> s.exc, trades |-> r.ret]
    /\ ord' = s.ord
    /\ buys' = [p \in DOMAIN s.buys |-> s.deq[s.buys[p]]]
    /\ sells' = [p \in DOMAIN s.sells |-> s.deq[s.sells[p]]]
    /\ buy_prices' = s.buy_prices
    /\ sell_prices' = s.sell_prices
    /\ orders' = s.orders
    /\ trades' = s.trades
    /\ stop_orders' = s.stop_orders
    /\ seq' = s.seq
    /\ op' = "submit_order"
    /\ resubmitted' = s.resubmitted
    /\ cause' = s.cause
    /\ UNCHANGED <<grid, full>>
    /\ rows' = NoRows

\* The orders a caller builds: the fields a type does not use stay None.
WellFormed(t) ==
    /\ (t.price # None) = (t.type \in {LIMIT, STOP_LIMIT, ICEBERG})
    /\ (t.stop_price # None) = (t.type \in {STOP, STOP_LIMIT})
    /\ (t.display_size # None) = (t.type = ICEBERG)
    /\ t.display_size <= t.quantity

Requests(types) ==
    {t \in [side : Side, type : types, quantity : 1..MaxQty, price : 0..MaxPrice,
            stop_price : 0..MaxPrice, display_size : 0..MaxQty] : WellFormed(t)}

\* o = Order(...); book.submit_order(o)
Submit(t, n) ==
    /\ Cardinality(DOMAIN ord) < n
    /\ Leave(submit_order(Enter(NewOrder(seq, t.side, t.type, t.quantity, t.price,
                                         t.stop_price, t.display_size)),
                          seq), seq)

\* no aggregate_levels result has been returned by the last call
NoLevels == [depth |-> 0, bids |-> <<>>, asks |-> <<>>]

\* OrderBook() of orderbook_grid_ui, with no Order created yet
NewGrid ==
    [ord |-> <<>>, buys |-> <<>>, sells |-> <<>>, buy_prices |-> <<>>, sell_prices |-> <<>>,
     orders |-> {}, trades |-> <<>>, seq |-> 1, exc |-> NoExc,
     ret |-> <<>>, levels |-> NoLevels]

\* OrderBook() of orderbook_full: _init_csv writes the header row only
NewFull ==
    [bids |-> <<>>, asks |-> <<>>, trades |-> <<>>, event_id |-> 0, log |-> <<>>,
     call |-> [side |-> "none", price |-> None, qty |-> 0], calls |-> 0,
     ret |-> <<>>]

Init ==
    /\ ord = <<>>
    /\ buys = <<>>
    /\ sells = <<>>
    /\ buy_prices = <<>>
    /\ sell_prices = <<>>
    /\ orders = {}
    /\ trades = <<>>
    /\ stop_orders = <<>>
    /\ seq = 1
    /\ ret = [order |-> None, exc |-> NoExc, trades |-> <<>>]
    /\ op = "none"
    /\ rows = NoRows
    /\ resubmitted = <<>>
    /\ cause = <<>>
    /\ grid = NewGrid
    /\ full = NewFull

\* every order type, MaxOrders calls
SubmitOrder == \E t \in Requests(OrderType) : Submit(t, MaxOrders)

Next == SubmitOrder

Spec == Init /\ [][Next]_vars

\* Limit orders, Market and IOC aggressors and Stop orders, MaxCascade calls
SubmitCascade == \E t \in Requests({LIMIT, MARKET, IOC, STOP}) : Submit(t, MaxCascade)

NextCascade == SubmitCascade

SpecCascade == Init /\ [][NextCascade]_vars

\* Limit and StopLimit orders, MaxCascade calls
SubmitStopLimit == \E t \in Requests({LIMIT, STOP_LIMIT}) : Submit(t, MaxCascade)

NextStopLimit == SubmitStopLimit

SpecStopLimit == Init /\ [][NextStopLimit]_vars

\* Orders as any caller may build them: the quantity may be 0 and the
\* display_size of an Iceberg order may be missing or exceed the quantity
Unvalidated(t) ==
    /\ (t.price # None) = (t.type \in {LIMIT, STOP_LIMIT, ICEBERG})
    /\ (t.stop_price # None) = (t.type \in {STOP, STOP_LIMIT})
    /\ t.type # ICEBERG => t.display_size = None

AnyRequests(types) ==
    {t \in [side : Side, type : types, quantity : 0..MaxQty, price : 0..MaxPrice,
            stop_price : 0..MaxPrice, display_size : 0..MaxQty] : Unvalidated(t)}

SubmitAny == \E t \in AnyRequests(OrderType) : Submit(t, MaxOrders)

NextAnyInput == SubmitAny

SpecAnyInput == Init /\ [][NextAnyInput]_vars

\* book._remove_order_from_book(o) for an Order object o created earlier: the
\* only routine of the class that takes an order out of the book.  It is a
\* call from outside, so no other frame holds a reference to the deque.
_remove_order_from_book(id) ==
    LET order == ord[id]
        bk == IF order.side = BUY THEN buys ELSE sells
        pl == IF order.side = BUY THEN buy_prices ELSE sell_prices
        keep(x) == x # id
        q == SelectSeq(bk[order.price], keep)
        missing == q = <<>> /\ order.price \notin Range(pl)
        bk1 == IF q # <<>> THEN [bk EXCEPT ![order.price] = q] ELSE DelKey(bk, order.price)
        pl1 == IF q # <<>> THEN pl ELSE RemoveFirst(pl, order.price)
    IN /\ IF order.price \notin DOMAIN bk
          THEN /\ UNCHANGED <<buys, sells, buy_prices, sell_prices, orders>>
               /\ ret' = [order |-> id, exc |-> NoExc, trades |-> <<>>]
          ELSE /\ buys' = IF order.side = BUY THEN bk1 ELSE buys
               /\ sells' = IF order.side = BUY THEN sells ELSE bk1
               /\ buy_prices' = IF order.side = BUY THEN pl1 ELSE buy_prices
               /\ sell_prices' = IF order.side = BUY THEN sell_prices ELSE pl1
               /\ orders' = IF missing THEN orders ELSE orders \ {id}
               /\ ret' = [order |-> id, exc |-> IF missing THEN "ValueError" ELSE NoExc,
                          trades |-> <<>>]
       /\ op' = "_remove_order_from_book"
       /\ rows' = NoRows
       /\ UNCHANGED <<ord, trades, stop_orders, seq, resubmitted, cause, grid, full>>

\* Limit, Market, Stop and StopLimit orders, MaxOrders calls of submit_order,
\* and removals of any order created so far
SubmitOrRemove == \E t \in Requests({LIMIT, MARKET, STOP, STOP_LIMIT}) : Submit(t, MaxOrders)

Cancel == \E id \in DOMAIN ord : _remove_order_from_book(id)

NextCancel == SubmitOrRemove \/ Cancel

SpecCancel == Init /\ [][NextCancel]_vars

\* l[:depth] for depth >= 0
Take(l, depth) == SubSeq(l, 1, Min(depth, Len(l)))

\* sum(o.remaining for o in q)
RECURSIVE size_of(_)
size_of(q) == IF q = <<>> THEN 0 ELSE remaining(ord[Head(q)]) + size_of(Tail(q))

\* the rows built by one of the two loops of snapshot
rows_of(prices, bk) ==
    [i \in 1..Len(prices) |-> [price |-> prices[i], size |-> size_of(bk[prices[i]])]]

\* book.snapshot(depth): the two row lists that are handed to pd.DataFrame, or
\* KeyError when a listed price is not a key of the book
snapshot(depth) ==
    LET bp == Take(_best_buy_prices([buy_prices |-> buy_prices]), depth)
        sp == Take(_best_sell_prices([sell_prices |-> sell_prices]), depth)
        found == Range(bp) \subseteq DOMAIN buys /\ Range(sp) \subseteq DOMAIN sells
    IN /\ rows' = IF found
                  THEN [depth |-> depth, bids |-> rows_of(bp, buys), asks |-> rows_of(sp, sells)]
                  ELSE NoRows
       /\ ret' = [order |-> None, exc |-> IF found THEN NoExc ELSE "KeyError", trades |-> <<>>]
       /\ op' = "snapshot"
       /\ UNCHANGED <<ord, buys, sells, buy_prices, sell_prices, orders, trades, stop_orders,
                      seq, resubmitted, cause, grid, full>>

\* A ladder of Limit orders of quantity 1, the k-th at price k on either side,
\* then MaxLadderCalls calls with Limit, Stop and StopLimit orders at the
\* prices 1..LadderPrice
LadderRequests(types) ==
    {t \in [side : Side, type : types, quantity : 1..MaxQty, price : 0..LadderPrice,
            stop_price : 0..LadderPrice, display_size : {None}] : WellFormed(t)}

SubmitRung ==
    \E side \in Side :
        /\ Cardinality(DOMAIN ord) < LadderPrice
        /\ Submit([side |-> side, type |-> LIMIT, quantity |-> 1,
                   price |-> Cardinality(DOMAIN ord) + 1, stop_price |-> None,
                   display_size |-> None], LadderPrice)

SubmitOnLadder ==
    \E t \in LadderRequests({LIMIT, STOP, STOP_LIMIT}) :
        /\ Cardinality(DOMAIN ord) >= LadderPrice
        /\ Submit(t, LadderPrice + MaxLadderCalls)

NextLadder == SubmitRung \/ SubmitOnLadder

SpecLadder == Init /\ [][NextLadder]_vars

\* The ladder, then MaxLadderCalls calls with Limit and Stop orders, and
\* snapshot calls in between
SubmitToLadder ==
    \E t \in LadderRequests({LIMIT, STOP}) :
        /\ Cardinality(DOMAIN ord) >= LadderPrice
        /\ Submit(t, LadderPrice + MaxLadderCalls)

Snapshot == \E depth \in 1..MaxDepth : snapshot(depth)

NextSnapshot == SubmitRung \/ SubmitToLadder \/ Snapshot

SpecSnapshot == Init /\ [][NextSnapshot]_vars

\* =============================================== orderbook_grid_ui.OrderBook
\* The engine of the grid visualizer.  The variable grid holds its OrderBook
\* object, the Order objects created for it, its own counter _seq, and the
\* results of the last add_limit and aggregate_levels calls.

\* Order(side=..., price=..., quantity=...): id and timestamp are drawn from _seq
GridOrder(n, side, price, quantity) ==
    [id |-> n, side |-> side, price |-> price, quantity |-> quantity, filled |-> 0,
     timestamp |-> n + 1]

grid_remaining(o) == Max(0, o.quantity - o.filled)

\* Trade(buy_id, sell_id, price, qty)
GridTrade(buy_id, sell_id, price, qty) ==
    [buy_id |-> buy_id, sell_id |-> sell_id, price |-> price, qty |-> qty]

\* bisect.bisect_left(a, x, lo, hi)
RECURSIVE bisect_left(_, _, _, _)
bisect_left(a, x, lo, hi) ==
    IF lo < hi
    THEN LET mid == (lo + hi) \div 2 IN
         IF a[mid + 1] < x THEN bisect_left(a, x, mid + 1, hi)
         ELSE bisect_left(a, x, lo, mid)
    ELSE lo

\* the price list after _add_level(price_list, price, descending)
_add_level(prices, price, descending) ==
    IF price \in Range(prices) THEN prices
    ELSE LET keys == IF descending THEN [i \in DOMAIN prices |-> 0 - prices[i]]
                     ELSE prices
             idx == bisect_left(keys, IF descending THEN 0 - price ELSE price,
                                0, Len(prices))
         IN SubSeq(prices, 1, idx) \o <<price>>
                \o SubSeq(prices, idx + 1, Len(prices))

grid_book(g, side) == IF side = BUY THEN g.buys ELSE g.sells

grid_prices(g, side) == IF side = BUY THEN g.buy_prices ELSE g.sell_prices

grid_with(g, side, bk, prices) ==
    IF side = BUY THEN [g EXCEPT !.buys = bk, !.buy_prices = prices]
    ELSE [g EXCEPT !.sells = bk, !.sell_prices = prices]

\* the order is appended to the queue of its price on its own side, the level
\* being created first if it is missing, and entered in the order table
append_to_level(g, id) ==
    LET o == g.ord[id]
        bk == grid_book(g, o.side)
        prices == grid_prices(g, o.side)
        g1 == IF o.price \notin DOMAIN bk
              THEN grid_with(g, o.side, bk @@ (o.price :> <<>>),
                             _add_level(prices, o.price, o.side = BUY))
              ELSE g
        bk1 == grid_book(g1, o.side)
    IN [grid_with(g1, o.side, [bk1 EXCEPT ![o.price] = Append(@, id)],
                  grid_prices(g1, o.side))
           EXCEPT !.orders = @ \cup {id}]

\* the opposing price is beyond the limit of the incoming order
beyond_limit(incoming, price) ==
    IF incoming.side = BUY THEN price > incoming.price ELSE price < incoming.price

RECURSIVE match_queue(_, _, _, _), match_levels(_, _, _, _, _)

\* the while loop of match over the queue of the opposing level `price`;
\* yields the engine and the local trades
match_queue(g, id, price, ts) ==
    LET incoming == g.ord[id]
        opp == IF incoming.side = BUY THEN SELL ELSE BUY
        q == grid_book(g, opp)[price]
    IN
    IF ~(q # <<>> /\ grid_remaining(incoming) > 0) THEN [g |-> g, trades |-> ts]
    ELSE
    LET resting == g.ord[Head(q)]
        qty == Min(grid_remaining(incoming), grid_remaining(resting))
        t == IF incoming.side = BUY THEN GridTrade(incoming.id, resting.id, price, qty)
             ELSE GridTrade(resting.id, incoming.id, price, qty)
        ord1 == [g.ord EXCEPT ![id].filled = @ + qty, ![resting.id].filled = @ + qty]
        g1 == [g EXCEPT !.ord = ord1, !.trades = Append(@, <<price, qty>>)]
    IN
    IF grid_remaining(ord1[resting.id]) = 0
    THEN match_queue(
             [grid_with(g1, opp, [grid_book(g1, opp) EXCEPT ![price] = Tail(@)],
                        grid_prices(g1, opp))
                 EXCEPT !.orders = @ \ {resting.id}],
             id, price, Append(ts, t))
    ELSE match_queue(g1, id, price, Append(ts, t))

\* the end of one pass of the for loop, m being what the while loop left: an
\* emptied level is deleted and its price removed, then the next price is taken
after_queue(m, id, prices, k, price) ==
    LET opp == IF m.g.ord[id].side = BUY THEN SELL ELSE BUY IN
    IF grid_book(m.g, opp)[price] # <<>> THEN match_levels(m.g, id, prices, k + 1, m.trades)
    ELSE IF price \notin Range(grid_prices(m.g, opp))
    THEN [g |-> [grid_with(m.g, opp, DelKey(grid_book(m.g, opp), price),
                           grid_prices(m.g, opp))
                    EXCEPT !.exc = "ValueError"],
          trades |-> m.trades]
    ELSE match_levels(grid_with(m.g, opp, DelKey(grid_book(m.g, opp), price),
                                RemoveFirst(grid_prices(m.g, opp), price)),
                      id, prices, k + 1, m.trades)

\* the for loop of match over the copied price list, from its k-th entry
match_levels(g, id, prices, k, ts) ==
    IF g.exc # NoExc \/ k > Len(prices) THEN [g |-> g, trades |-> ts]
    ELSE
    LET price == prices[k]
        incoming == g.ord[id]
        opp == IF incoming.side = BUY THEN SELL ELSE BUY
    IN
    IF grid_remaining(incoming) <= 0 THEN [g |-> g, trades |-> ts]
    ELSE IF beyond_limit(incoming, price) THEN [g |-> g, trades |-> ts]
    ELSE IF price \notin DOMAIN grid_book(g, opp)
    THEN [g |-> [g EXCEPT !.exc = "KeyError"], trades |-> ts]
    ELSE after_queue(match_queue(g, id, price, ts), id, prices, k, price)

\* match after its loops, m being what they left: an incoming order with
\* remaining > 0 is appended to the queue of its price
after_levels(m, id) ==
    IF m.g.exc # NoExc THEN [g |-> m.g, trades |-> <<>>]
    ELSE IF grid_remaining(m.g.ord[id]) > 0
    THEN [g |-> append_to_level(m.g, id), trades |-> m.trades]
    ELSE m

\* match(incoming): yields the engine and the returned list
match(g, id) ==
    after_levels(
        match_levels(g, id,
                     IF g.ord[id].side = BUY THEN g.sell_prices ELSE g.buy_prices,
                     1, <<>>),
        id)

\* add_limit(order): yields the engine and the returned list
add_limit(g, id) == match(append_to_level(g, id), id)

\* sorted(l): insertion of each element, stable
RECURSIVE sorted(_)
sorted(l) ==
    IF l = <<>> THEN <<>>
    ELSE LET rest == sorted(SubSeq(l, 1, Len(l) - 1))
             x == l[Len(l)]
             k == Cardinality({j \in 1..Len(rest) : rest[j] <= x})
         IN SubSeq(rest, 1, k) \o <<x>> \o SubSeq(rest, k + 1, Len(rest))

\* sum(o.remaining for o in q)
RECURSIVE total_remaining(_, _)
total_remaining(o, q) ==
    IF q = <<>> THEN 0 ELSE grid_remaining(o[Head(q)]) + total_remaining(o, Tail(q))

\* the (price, total_qty, num_orders) rows of the listed prices
level_rows(g, prices, bk) ==
    [i \in 1..Len(prices) |->
        LET q == IF prices[i] \in DOMAIN bk THEN bk[prices[i]] ELSE <<>>
        IN [price |-> prices[i], total |-> total_remaining(g.ord, q), count |-> Len(q)]]

\* aggregate_levels(depth): the pair (bids, asks)
aggregate_levels(g, depth) ==
    [depth |-> depth,
     bids |-> level_rows(g, Take(sorted_reverse(g.buy_prices), depth), g.buys),
     asks |-> level_rows(g, Take(sorted(g.sell_prices), depth), g.sells)]

\* o = Order(side=..., price=..., quantity=...); book.add_limit(o)
AddLimit ==
    \E side \in Side, price \in 1..MaxPrice, quantity \in 1..MaxQty :
        /\ Cardinality(DOMAIN grid.ord) < MaxAddCalls
        /\ LET n == grid.seq
               r == add_limit([grid EXCEPT !.ord = @ @@ (n :> GridOrder(n, side, price, quantity)),
                                           !.seq = n + 2, !.exc = NoExc],
                              n)
           IN grid' = [r.g EXCEPT !.ret = r.trades, !.levels = NoLevels]
        /\ UNCHANGED <<book_vars, full>>

\* book.aggregate_levels(depth)
AggregateLevels ==
    \E depth \in 1..MaxDepth :
        /\ grid' = [grid EXCEPT !.levels = aggregate_levels(grid, depth)]
        /\ UNCHANGED <<book_vars, full>>

\* MaxAddCalls calls of add_limit, and aggregate_levels at any time
NextGrid == AddLimit \/ AggregateLevels

SpecGrid == Init /\ [][NextGrid]_vars

\* ==================================================== orderbook_full.OrderBook
\* The aggregated engine: a side maps a price to the total quantity resting at
\* it.  The variable full holds its OrderBook object, the rows it has written
\* to its log file, and the arguments and the result of the last add_order
\* call.  The wall-clock time written into trades and rows is left out.

\* deque.appendleft(x) on a deque with maxlen
appendleft(d, x) == Take(<<x>> \o d, TradesMaxLen)

\* the level map m with delta added at price: a level that reaches 0 is deleted
\* by the caller, a missing level counts as 0 (defaultdict(int))
level_qty(m, price) == IF price \in DOMAIN m THEN m[price] ELSE 0

set_level(m, price, qty) == [p \in DOMAIN m \cup {price} |-> IF p = price THEN qty ELSE m[p]]

\* min(d.keys()) and max(d.keys()) of a non-empty dict
min_key(m) == CHOOSE p \in DOMAIN m : \A x \in DOMAIN m : p <= x

max_key(m) == CHOOSE p \in DOMAIN m : \A x \in DOMAIN m : p >= x

\* sorted(d.items(), key=...)[:n]: the levels as (price, qty) pairs, best first
RECURSIVE sorted_items(_, _)
sorted_items(m, descending) ==
    IF DOMAIN m = {} THEN <<>>
    ELSE LET p == IF descending THEN max_key(m) ELSE min_key(m)
         IN <<[price |-> p, qty |-> m[p]]>> \o sorted_items(DelKey(m, p), descending)

\* get_depth(): the pair (bids_sorted, asks_sorted)
get_depth(f) ==
    [bids |-> Take(sorted_items(f.bids, TRUE), DepthLevels),
     asks |-> Take(sorted_items(f.asks, FALSE), DepthLevels)]

_log_trade(f, side, price, qty) ==
    [f EXCEPT !.event_id = @ + 1,
              !.log = Append(@, [event_id |-> f.event_id + 1, event_type |-> "TRADE",
                                 side |-> side, price |-> price, qty |-> qty])]

_log_snapshot(f) ==
    [f EXCEPT !.event_id = @ + 1,
              !.log = Append(@, [event_id |-> f.event_id + 1, event_type |-> "SNAPSHOT",
                                 bids |-> get_depth(f).bids, asks |-> get_depth(f).asks])]

\* faulty variant: an opposing level at exactly the order price is not matched
crosses_Strict(side, best, price) == IF side = BUY THEN best < price ELSE best > price

\* the price test of the two while loops
crosses(side, best, price) == IF side = BUY THEN best <= price ELSE best >= price

\* the opposing side of an order and the order's own side
opposing_levels(f, side) == IF side = BUY THEN f.asks ELSE f.bids

own_levels(f, side) == IF side = BUY THEN f.bids ELSE f.asks

with_opposing(f, side, m) == IF side = BUY THEN [f EXCEPT !.asks = m] ELSE [f EXCEPT !.bids = m]

with_own(f, side, m) == IF side = BUY THEN [f EXCEPT !.bids = m] ELSE [f EXCEPT !.asks = m]

\* the while loop of add_order; yields the engine, the quantity left and the
\* local trades
RECURSIVE match_best(_, _, _, _, _)
match_best(f, side, price, qty, ts) ==
    LET opp == opposing_levels(f, side) IN
    IF ~(qty > 0 /\ DOMAIN opp # {}
           /\ crosses(side, IF side = BUY THEN min_key(opp) ELSE max_key(opp), price))
    THEN [f |-> f, qty |-> qty, trades |-> ts]
    ELSE
    LET best == IF side = BUY THEN min_key(opp) ELSE max_key(opp)
        trade_qty == Min(qty, opp[best])
        left == opp[best] - trade_qty
        opp1 == IF left = 0 THEN DelKey(opp, best) ELSE set_level(opp, best, left)
        f1 == [with_opposing(f, side, opp1)
                  EXCEPT !.trades = appendleft(@, [side |-> side, price |-> best,
                                                   qty |-> trade_qty])]
    IN match_best(_log_trade(f1, side, best, trade_qty), side, price, qty - trade_qty,
                  Append(ts, [side |-> side, price |-> best, qty |-> trade_qty]))

\* add_order after its loop, m being what the loop left
after_best(m, side, price) ==
    [f |-> _log_snapshot(
               IF m.qty > 0
               THEN with_own(m.f, side,
                             set_level(own_levels(m.f, side), price,
                                       level_qty(own_levels(m.f, side), price) + m.qty))
               ELSE m.f),
     trades |-> m.trades]

\* add_order(side, price, qty): yields the engine and the returned list
add_order(f, side, price, qty) == after_best(match_best(f, side, price, qty, <<>>), side, price)

best_bid(f) == IF DOMAIN f.bids # {} THEN max_key(f.bids) ELSE None

best_ask(f) == IF DOMAIN f.asks # {} THEN min_key(f.asks) ELSE None

\* book.add_order(side, price, qty) with qty > 0
AddOrder ==
    \E side \in Side, price \in 1..MaxPrice, qty \in 1..MaxQty :
        /\ full.calls < MaxAddCalls
        /\ LET r == add_order(full, side, price, qty)
           IN full' = [r.f EXCEPT !.ret = r.trades,
                                  !.call = [side |-> side, price |-> price, qty |-> qty],
                                  !.calls = @ + 1]
        /\ UNCHANGED <<book_vars, grid>>

\* MaxAddCalls calls of add_order
NextFull == AddOrder

SpecFull == Init /\ [][NextFull]_vars

\* ------------------------------------------------------------ properties
\* the ids queued on a side, and the sum of their remaining quantities
Queued(b) == UNION {Range(b[p]) : p \in DOMAIN b}

InBook(id) == id \in Queued(buys) \cup Queued(sells)

RECURSIVE SumRemaining(_, _)
SumRemaining(o, ids) ==
    IF ids = {} THEN 0
    ELSE LET x == CHOOSE x \in ids : TRUE
         IN remaining(o[x]) + SumRemaining(o, ids \ {x})

\* the total remaining quantity resting against an order of the given side
Opposing(side) == SumRemaining(ord, Queued(IF side = BUY THEN sells ELSE buys))

\* a step is a call submit_order(o) of the new order o, whose id is seq
Called == seq' # seq

\* the trades appended to the log during the last call
LoggedByLastCall ==
    LET during(t) == t.timestamp > ret.order IN SelectSeq(trades, during)

\* C1: a FOK order for more than the total remaining quantity on the opposing
\* side leaves both book sides, the price lists, every order's filled amount,
\* the trade log and its own filled amount as they were before the call.
C1_FokShortfallChangesNothing ==
    [][(Called /\ ord'[seq].type = FOK /\ Opposing(ord'[seq].side) < ord'[seq].quantity)
         => /\ buys' = buys
            /\ sells' = sells
            /\ buy_prices' = buy_prices
            /\ sell_prices' = sell_prices
            /\ trades' = trades
            /\ \A id \in DOMAIN ord : ord'[id].filled = ord[id].filled
            /\ ord'[seq].filled = 0]_vars

\* C2: a FOK order for more than the total remaining quantity on the opposing
\* side returns the empty list and is then in neither book side; a FOK order
\* that returns a non-empty list is filled for its whole quantity.
C2_FokShortfallReturnsEmpty ==
    [][(Called /\ ord'[seq].type = FOK /\ ret'.exc = NoExc)
         => /\ Opposing(ord'[seq].side) < ord'[seq].quantity
                => ret'.trades = <<>> /\ seq \notin Queued(buys') \cup Queued(sells')
            /\ ret'.trades # <<>> => ord'[seq].filled = ord'[seq].quantity]_vars

\* C3: the list a call returns is the segment of the trade log that the call
\* appended, the trades of the stop orders it activated included.
C3_ReturnsEveryTradeOfTheCall ==
    (ret.order # None /\ ret.exc = NoExc) => ret.trades = LoggedByLastCall

\* C4: submit_order of an order with quantity > 0 (and a display_size within
\* 1..quantity if Iceberg) returns normally: no exception leaves the call.
C4_SubmitNeverRaises == ret.exc = NoExc

\* a Limit order as the caller submitted it (an activated StopLimit keeps its stop_price)
PlainLimit(id) == ord[id].type = LIMIT /\ ord[id].stop_price = None

\* the resting party of a logged trade
RestingOf(t) == IF t.aggressor = t.buy_order_id THEN t.sell_order_id ELSE t.buy_order_id

Logged == Range(trades)

\* C5: whenever a Limit order is filled while another Limit order of the same
\* queue (same side, same price) still has remaining > 0, the one that is
\* filled is the one that was submitted earlier.
C5_PriceTimePriority ==
    \A t \in Logged : \A x \in t.live \ {RestingOf(t)} :
        (PlainLimit(x) /\ PlainLimit(RestingOf(t))) => ord[RestingOf(t)].id < ord[x].id

\* two Limit orders of one queue were filled in turn, the earlier one first, by a
\* Limit aggressor and then by the Stop order its trade activated
C5_Witness ==
    \E i, j \in 1..Len(trades) :
        /\ i < j
        /\ PlainLimit(RestingOf(trades[i])) /\ PlainLimit(RestingOf(trades[j]))
        /\ RestingOf(trades[j]) \in trades[i].live \ {RestingOf(trades[i])}
        /\ ord[trades[i].aggressor].type = LIMIT
        /\ ord[trades[j].aggressor].type = MARKET /\ ord[trades[j].aggressor].stop_price # None
        /\ ret.exc = NoExc

\* C6: in every logged trade a buyer of type Limit pays at most its limit
\* price and a seller of type Limit receives at least its limit price.
C6_CrossingCorrectness ==
    \A t \in Logged :
        /\ ord[t.buy_order_id].type = LIMIT => t.price <= ord[t.buy_order_id].price
        /\ ord[t.sell_order_id].type = LIMIT => t.price >= ord[t.sell_order_id].price

\* an activated StopLimit traded as the aggressor at a price strictly inside its limit
C6_Witness ==
    \E t \in Logged :
        /\ ord[t.aggressor].type = LIMIT /\ ord[t.aggressor].stop_price # None
        /\ ord[RestingOf(t)].type = LIMIT
        /\ t.price # ord[t.aggressor].price
        /\ ret.exc = NoExc

\* C7: every order has 0 <= filled <= quantity and every trade has quantity >= 1.
C7_NoOverFill ==
    /\ \A id \in DOMAIN ord : 0 <= ord[id].filled /\ ord[id].filled <= ord[id].quantity
    /\ \A t \in Logged : t.quantity >= 1

\* one order filled to its whole quantity of 2 or more by a trade that left its
\* counterparty partly filled
C7_Witness ==
    \E t \in Logged : \E a, b \in {t.buy_order_id, t.sell_order_id} :
        /\ ord[a].filled = ord[a].quantity /\ ord[a].quantity >= 2
        /\ 0 < ord[b].filled /\ ord[b].filled < ord[b].quantity

\* C8: an order of type Market or IOC (an activated Stop included) is in no
\* queue of either side.
C8_MarketAndIocNeverRest ==
    \A id \in DOMAIN ord : ord[id].type \in {MARKET, IOC} => ~InBook(id)

\* an IOC order activated a Stop order, and both ended partly filled
C8_Witness ==
    /\ \E id \in DOMAIN ord :
           /\ ord[id].type = MARKET /\ ord[id].stop_price # None
           /\ 0 < ord[id].filled /\ ord[id].filled < ord[id].quantity
    /\ ret.exc = NoExc /\ ord[ret.order].type = IOC
    /\ ret.trades # <<>> /\ ord[ret.order].filled < ord[ret.order].quantity

\* C9: the price of every trade is the price of the level the resting order
\* was queued at, which is the resting order's own price.
C9_TradesAtRestingPrice ==
    \A t \in Logged : t.price = t.level /\ t.price = ord[RestingOf(t)].price

\* a Limit aggressor traded at a price other than its own limit
C9_Witness ==
    \E t \in Logged :
        ord[t.aggressor].type = LIMIT /\ ord[t.aggressor].price # t.price

\* C10: submit_order of a Stop or StopLimit order returns the empty list,
\* appends the order to the stop list and changes nothing else; an order
\* whose type is still Stop or StopLimit is unfilled, in no trade and in no queue.
C10_StopOrdersOnlyPark ==
    [][/\ (Called /\ ord'[seq].type \in {STOP, STOP_LIMIT})
            => /\ ret' = [order |-> seq, exc |-> NoExc, trades |-> <<>>]
               /\ stop_orders' = Append(stop_orders, seq)
               /\ buys' = buys /\ sells' = sells
               /\ buy_prices' = buy_prices /\ sell_prices' = sell_prices
               /\ trades' = trades /\ orders' = orders
               /\ \A id \in DOMAIN ord : ord'[id] = ord[id]
       /\ \A id \in DOMAIN ord' :
              ord'[id].type \in {STOP, STOP_LIMIT}
                  => /\ ord'[id].filled = 0
                     /\ \A t \in Range(trades') : id \notin {t.buy_order_id, t.sell_order_id}
                     /\ id \notin Queued(buys') \cup Queued(sells')]_vars

\* a Buy StopLimit was parked although an earlier trade price already meets
\* its stop price and its limit price crosses the best ask
C10_Witness ==
    /\ ret.order \in Range(stop_orders)
    /\ ord[ret.order].type = STOP_LIMIT /\ ord[ret.order].side = BUY
    /\ \E t \in Logged : t.price >= ord[ret.order].stop_price
    /\ sell_prices # <<>> /\ sell_prices[1] <= ord[ret.order].price

\* the trigger condition of a parked order o at the trade price p
Meets(o, p) == IF o.side = BUY THEN p >= o.stop_price ELSE p <= o.stop_price

Parked == Range(stop_orders)

\* an order that left the stop list by activation: the type is converted, the
\* stop price stays
Activated(id) == ord[id].type \in {MARKET, LIMIT} /\ ord[id].stop_price # None

\* C11: after every call, no order of the stop list was parked before a logged
\* trade whose price meets its trigger condition (Buy: price >= stop_price,
\* Sell: price <= stop_price), and every order that left the stop list during
\* the call did so at a trade of that call whose price meets its condition.
C11_StopTriggerCondition ==
    [][/\ \A id \in Range(stop_orders') : \A t \in Range(trades') :
              t.timestamp > id => ~Meets(ord'[id], t.price)
       /\ \A id \in Parked \ Range(stop_orders') :
              /\ ord'[id].type \in {MARKET, LIMIT}
              /\ \E t \in Range(trades') \ Logged : Meets(ord[id], t.price)]_vars

\* a trade of the last call, made exactly at the stop price of a parked Buy Stop
\* order, activated it, and a Buy Stop order parked before it with a higher
\* stop price is still parked
C11_Witness ==
    \E a \in DOMAIN ord : \E b \in Parked : \E t \in Logged :
        /\ Activated(a) /\ ord[a].side = BUY /\ ord[b].side = BUY
        /\ a < ret.order /\ b < ret.order /\ t.timestamp > ret.order
        /\ t.price = ord[a].stop_price /\ t.price < ord[b].stop_price
        /\ ret.exc = NoExc

\* C12: an order that leaves the stop list is converted and re-submitted: a Stop
\* becomes a Market order with price cleared, a StopLimit becomes a Limit order
\* with its limit price unchanged; an activated Stop is in no queue; an
\* activated StopLimit trades only within its limit price and, while it has
\* remaining > 0, is queued on its own side at its limit price.
C12_StopConversion ==
    [][/\ \A id \in Parked \ Range(stop_orders') :
              /\ id \in Range(resubmitted')
              /\ ord[id].type = STOP => ord'[id].type = MARKET /\ ord'[id].price = None
              /\ ord[id].type = STOP_LIMIT
                     => ord'[id].type = LIMIT /\ ord'[id].price = ord[id].price
       /\ \A id \in DOMAIN ord' :
              (ord'[id].stop_price # None /\ ord'[id].type = MARKET)
                  => id \notin Queued(buys') \cup Queued(sells')
       /\ \A id \in DOMAIN ord' :
              (ord'[id].stop_price # None /\ ord'[id].type = LIMIT)
                  => /\ \A t \in Range(trades') :
                            /\ t.buy_order_id = id => t.price <= ord'[id].price
                            /\ t.sell_order_id = id => t.price >= ord'[id].price
                     /\ ord'[id].quantity > ord'[id].filled
                            => LET b == IF ord'[id].side = BUY THEN buys' ELSE sells'
                               IN /\ ord'[id].price \in DOMAIN b
                                  /\ id \in Range(b[ord'[id].price])]_vars

\* the engine state a rejected call must leave alone
EngineUnchanged ==
    /\ buys' = buys /\ sells' = sells
    /\ buy_prices' = buy_prices /\ sell_prices' = sell_prices
    /\ orders' = orders /\ stop_orders' = stop_orders /\ trades' = trades
    /\ \A id \in DOMAIN ord : ord'[id] = ord[id]

\* C13: submit_order of an order with quantity <= 0, whatever its type, raises
\* an error and leaves both book sides, the price lists, the order table, the
\* stop list, the trade log and every other order as they were.
C13_NonPositiveQuantityRejected ==
    [][(Called /\ ord'[seq].quantity + ord'[seq].reserve <= 0)
         => /\ ret'.exc # NoExc
            /\ ret'.trades = <<>>
            /\ EngineUnchanged
            /\ ord'[seq].filled = 0]_vars

\* a StopLimit order of quantity 0 was rejected while a stop order is parked
\* and an order rests that it would cross
C13_Witness ==
    /\ op = "submit_order" /\ ret.exc = "ValueError"
    /\ ord[ret.order].type = STOP_LIMIT /\ ord[ret.order].quantity = 0
    /\ Parked # {}
    /\ \E id \in DOMAIN ord :
           /\ InBook(id) /\ ord[id].side # ord[ret.order].side
           /\ ord[id].price = ord[ret.order].price

\* C14: submit_order of an Iceberg order of quantity > 0 whose display_size is
\* missing, <= 0 or greater than the quantity raises an error and changes
\* nothing, the order's quantity and reserve included; an Iceberg order that
\* is accepted has reserve = quantity - display_size >= 0.  (The quantity the
\* caller asked for is quantity + reserve, sliced or not.)
C14_IcebergDisplayWithinQuantity ==
    [][(Called /\ ord'[seq].type = ICEBERG /\ ord'[seq].quantity + ord'[seq].reserve > 0)
         => LET o == ord'[seq]
                asked == o.quantity + o.reserve
            IN IF o.display_size # None /\ 0 < o.display_size /\ o.display_size <= asked
               THEN ret'.exc = NoExc
                        => o.reserve = asked - o.display_size /\ o.reserve >= 0
               ELSE /\ ret'.exc # NoExc
                    /\ EngineUnchanged
                    /\ o.quantity = asked /\ o.reserve = 0 /\ o.filled = 0]_vars

\* C15: a resting Iceberg order that has been hit and still has reserve > 0 is
\* not dropped: it has a displayed remaining quantity > 0 and is queued in the
\* book.
C15_IcebergReplenished ==
    \A id \in DOMAIN ord :
        (/\ ord[id].type = ICEBERG
         /\ ord[id].reserve > 0
         /\ \E t \in Logged : RestingOf(t) = id)
            => remaining(ord[id]) > 0 /\ InBook(id)

\* a step that is the call _remove_order_from_book(o) of the order with this id
Cancels(id) == op' = "_remove_order_from_book" /\ ret'.order = id

\* a sequence without the given element
Without(q, id) == LET keep(x) == x # id IN SelectSeq(q, keep)

\* C16: cancelling a resting order takes it out of its queue and of the order
\* table, removes its price from the side's price list iff the queue becomes
\* empty and leaves every other queue and the order of the other entries of
\* its queue as they were; cancelling a parked Stop or StopLimit order takes
\* it out of the stop list.
C16_CancelRemoves ==
    [][\A id \in DOMAIN ord :
           Cancels(id)
               => LET side == ord[id].side
                      price == ord[id].price
                      bk == IF side = BUY THEN buys ELSE sells
                      bk1 == IF side = BUY THEN buys' ELSE sells'
                      pl1 == IF side = BUY THEN buy_prices' ELSE sell_prices'
                  IN /\ InBook(id)
                         => /\ id \notin Queued(buys') \cup Queued(sells')
                            /\ id \notin orders'
                            /\ (price \in Range(pl1)) = (Without(bk[price], id) # <<>>)
                            /\ (price \in DOMAIN bk1) = (Without(bk[price], id) # <<>>)
                            /\ \A p \in DOMAIN bk1 : bk1[p] = Without(bk[p], id)
                            /\ IF side = BUY THEN sells' = sells ELSE buys' = buys
                     /\ id \in Parked => id \notin Range(stop_orders')]_vars

\* C17: cancelling an order that is neither resting nor parked (never accepted,
\* fully filled or already cancelled) raises OrderNotFound and leaves the
\* engine as it was.
C17_CancelOfAbsentOrderFails ==
    [][\A id \in DOMAIN ord :
           (Cancels(id) /\ ~InBook(id) /\ id \notin Parked)
               => ret'.exc = "OrderNotFound" /\ EngineUnchanged]_vars

\* C18: snapshot(depth) returns normally; its bid rows are the min(depth,
\* number of bid levels) highest bid prices in descending order, its ask rows
\* the lowest ask prices in ascending order, each with a size > 0 that is the
\* sum of remaining over the orders queued at the price; the book, the order
\* table, the stop list and the trade log are unchanged.
C18_SnapshotIsBestLevels ==
    [][op' = "snapshot"
         => /\ ret'.exc = NoExc
            /\ Len(rows'.bids) = Min(rows'.depth, Cardinality(DOMAIN buys))
            /\ Len(rows'.asks) = Min(rows'.depth, Cardinality(DOMAIN sells))
            /\ \A i \in DOMAIN rows'.bids :
                   LET r == rows'.bids[i] IN
                   /\ r.price \in DOMAIN buys
                   /\ Cardinality({p \in DOMAIN buys : p > r.price}) = i - 1
                   /\ r.size = SumRemaining(ord, Range(buys[r.price]))
                   /\ r.size > 0
            /\ \A i \in DOMAIN rows'.asks :
                   LET r == rows'.asks[i] IN
                   /\ r.price \in DOMAIN sells
                   /\ Cardinality({p \in DOMAIN sells : p < r.price}) = i - 1
                   /\ r.size = SumRemaining(ord, Range(sells[r.price]))
                   /\ r.size > 0
            /\ EngineUnchanged]_vars

\* the sum of the quantities of the logged trades that name the order
RECURSIVE TradedQty(_, _)
TradedQty(ts, id) ==
    IF ts = <<>> THEN 0
    ELSE (IF id \in {Head(ts).buy_order_id, Head(ts).sell_order_id} THEN Head(ts).quantity ELSE 0)
         + TradedQty(Tail(ts), id)

\* the sum of filled over a set of orders
RECURSIVE SumFilled(_)
SumFilled(ids) ==
    IF ids = {} THEN 0
    ELSE LET x == CHOOSE x \in ids : TRUE IN ord[x].filled + SumFilled(ids \ {x})

\* C19: the filled amount of every order is the sum of the quantities of the
\* logged trades that name it as buyer or seller; hence the filled amounts of
\* the buyers and those of the sellers both add up to the total of the log.
C19_Conservation ==
    /\ \A id \in DOMAIN ord : ord[id].filled = TradedQty(trades, id)
    /\ SumFilled({id \in DOMAIN ord : ord[id].side = BUY}) = SumQty(trades)
    /\ SumFilled({id \in DOMAIN ord : ord[id].side = SELL}) = SumQty(trades)

\* an aggressor of quantity 2 or more was filled by two trades against two
\* resting orders, one of which it left partly filled
C19_Witness ==
    \E t, u \in Logged :
        /\ t # u /\ t.aggressor = u.aggressor
        /\ RestingOf(t) # RestingOf(u)
        /\ ord[t.aggressor].filled = t.quantity + u.quantity
        /\ ord[RestingOf(u)].filled < ord[RestingOf(u)].quantity
        /\ ret.exc = NoExc

\* the ids re-submitted by the step
NewlyResubmitted == SubSeq(resubmitted', Len(resubmitted) + 1, Len(resubmitted'))

\* C20: every call completes with at most as many nested re-submissions as
\* there were orders in the stop list when it began; the orders re-submitted
\* were in that list, none is re-submitted twice in a behaviour, and a
\* re-submitted order never is a parked stop order again.
C20_CascadeIsBounded ==
    [][Called
         => /\ op' = "submit_order" /\ ret'.order = seq
            /\ SubSeq(resubmitted', 1, Len(resubmitted)) = resubmitted
            /\ Len(NewlyResubmitted) <= Len(stop_orders)
            /\ Range(NewlyResubmitted) \subseteq Parked
            /\ Cardinality(Range(resubmitted')) = Len(resubmitted')
            /\ \A id \in Range(resubmitted') :
                   /\ id \notin Range(stop_orders')
                   /\ ord'[id].type \notin {STOP, STOP_LIMIT}]_vars

\* one call re-submitted both orders of the stop list, the second from within
\* the match of the first, and returned
C20_Witness ==
    /\ op = "submit_order" /\ ret.exc = NoExc
    /\ Len(resubmitted) = 2
    /\ \A t \in Logged : t.timestamp > ret.order
    /\ \E t, u \in Logged :
           /\ t.aggressor = resubmitted[1] /\ u.aggressor = resubmitted[2]
           /\ t.price # u.price
           /\ ~Meets(ord[resubmitted[2]], trades[1].price)

\* the order x, left with remaining > 0 by the step, is queued once, on its own
\* side at its own price and nowhere else, behind every order that was queued
\* there before the step, and its remaining is its quantity less its trades
RestsBehind(x) ==
    LET o == ord'[x]
        own == IF o.side = BUY THEN buys' ELSE sells'
        other == IF o.side = BUY THEN sells' ELSE buys'
        before == IF o.side = BUY THEN buys ELSE sells
    IN /\ o.price \in DOMAIN own
       /\ Cardinality({i \in DOMAIN own[o.price] : own[o.price][i] = x}) = 1
       /\ \A p \in DOMAIN own \ {o.price} : x \notin Range(own[p])
       /\ x \notin Queued(other)
       /\ o.price \in DOMAIN before
              => \A i, j \in DOMAIN own[o.price] :
                     (own[o.price][j] = x /\ own[o.price][i] \in Range(before[o.price]) \ {x})
                         => i < j
       /\ remaining(o) = o.quantity - TradedQty(trades', x)

\* C21: after submit_order of a Limit order, or of a StopLimit order the call
\* activated, that is left with remaining > 0, the order is queued on its own
\* side at exactly its limit price, behind every order already queued at that
\* price, with remaining = quantity - the sum of its trades.
C21_LimitResidualRests ==
    [][Called
         => \A x \in {seq} \cup Range(NewlyResubmitted) :
                (ord'[x].type = LIMIT /\ remaining(ord'[x]) > 0) => RestsBehind(x)]_vars

\* how deep in the stop cascade of its call an order was submitted: 0 for the
\* order the caller submitted, 1 for an order one of its trades activated, ...
RECURSIVE CascadeDepth(_)
CascadeDepth(id) == IF id \in DOMAIN cause THEN 1 + CascadeDepth(cause[id]) ELSE 0

\* C22: within the trades logged by one submit_order call, every trade of the
\* primary match (the submitted order is a party) comes before every trade of
\* an order the call activated, and the trades of a cascade come before the
\* trades of the cascades it set off: the cascade depth never decreases along
\* the log of the call.
C22_CascadeOrdering ==
    op = "submit_order"
        => \A i, j \in 1..Len(trades) :
               (i < j /\ trades[i].timestamp > ret.order)
                   => CascadeDepth(trades[i].aggressor) <= CascadeDepth(trades[j].aggressor)

\* C23: whenever a trade executes against a resting order at price P, no order
\* with remaining > 0 rests on that same side at a strictly better price at
\* that moment, the orders that a stop cascade queued on that side while the
\* aggressor's match was in progress included.
C23_BestPriceFirst == \A t \in Logged : t.ahead = {}

\* one side of the book is consistent: price list, level map and queues agree
SideConsistent(bk, prices, side) ==
    /\ Range(prices) = DOMAIN bk
    /\ \A p \in DOMAIN bk : bk[p] # <<>>
    /\ Cardinality(Range(prices)) = Len(prices)
    /\ \A p \in DOMAIN bk : \A x \in Range(bk[p]) :
           remaining(ord[x]) > 0 /\ ord[x].price = p /\ ord[x].side = side

\* C24: in every state in which a submit_order call or a removal has
\* completed, on each side a price is in the price list iff it is a key of the
\* level map iff its queue is non-empty, the price list has no duplicates, and
\* every queued order has remaining > 0 and is queued at the level of its own
\* price on its own side.
C24_BookSideInvariant ==
    op \in {"submit_order", "_remove_order_from_book"}
        => /\ SideConsistent(buys, buy_prices, BUY)
           /\ SideConsistent(sells, sell_prices, SELL)

\* how many times the id occurs in a list
Count(l, id) == Cardinality({i \in DOMAIN l : l[i] = id})

\* how many times the id occurs in the queues of one side
RECURSIVE CountQueued(_, _, _)
CountQueued(bk, ps, id) ==
    IF ps = {} THEN 0
    ELSE LET p == CHOOSE p \in ps : TRUE
         IN Count(bk[p], id) + CountQueued(bk, ps \ {p}, id)

\* C25: each order is in at most one of the stop list, a bid queue and an ask
\* queue, and at most once; an order whose type is Stop or StopLimit is in no
\* book queue, and an order of the stop list still has the type Stop or
\* StopLimit.
C25_SingleLocation ==
    \A id \in DOMAIN ord :
        /\ Count(stop_orders, id) + CountQueued(buys, DOMAIN buys, id)
               + CountQueued(sells, DOMAIN sells, id) <= 1
        /\ ord[id].type \in {STOP, STOP_LIMIT} => ~InBook(id)
        /\ id \in Parked => ord[id].type \in {STOP, STOP_LIMIT}

\* a trade of the last call activated a parked StopLimit order, which left the
\* stop list and now rests in a queue of its own side as a Limit order
C25_Witness ==
    \E a \in DOMAIN ord :
        /\ Activated(a) /\ ord[a].type = LIMIT /\ a \notin Parked
        /\ a \in Range(resubmitted) /\ cause[a] = ret.order
        /\ a \in Range((IF ord[a].side = BUY THEN buys ELSE sells)[ord[a].price])
        /\ ret.exc = NoExc /\ ret.trades # <<>>

\* C26: after any submit_order call completes, no order with remaining = 0 is
\* held in a queue, in the stop list or in the order table, and the order
\* table holds exactly the orders that rest in the book.
C26_FilledOrdersAreDropped ==
    op = "submit_order"
        => /\ \A id \in DOMAIN ord :
                  remaining(ord[id]) = 0 => ~InBook(id) /\ id \notin Parked /\ id \notin orders
           /\ orders = Queued(buys) \cup Queued(sells)

\* C27: the orders of every price-level queue appear in strictly increasing
\* timestamp order from front to back, also when an activated StopLimit order,
\* whose timestamp was assigned when it was created and parked, comes to rest
\* behind orders created after it.
C27_TimeOrderWithinLevel ==
    \A bk \in {buys, sells} : \A p \in DOMAIN bk : \A i, j \in DOMAIN bk[p] :
        i < j => ord[bk[p][i]].timestamp < ord[bk[p][j]].timestamp

\* the prices at which an order with remaining > 0 is queued
LivePrices(bk) == {p \in DOMAIN bk : \E x \in Range(bk[p]) : remaining(ord[x]) > 0}

\* C28: the book is never left crossed: starting from the empty book, after
\* any sequence of submit_order calls of any types, whenever both sides are
\* non-empty the best bid is below the best ask, also when a stop order that
\* was activated during a match rests on the opposite side before the
\* residual of the incoming order is rested.
C28_NeverCrossed ==
    \A b \in LivePrices(buys) : \A a \in LivePrices(sells) : b < a

\* C29: in the engine of orderbook_grid_ui, after every add_limit call each
\* order appears at most once in the queue of its price level, and only if it
\* has remaining > 0; so no match has logged a trade of quantity 0, and the
\* rows of aggregate_levels count the remaining of each queued order exactly
\* once.
C29_GridQueuesHoldLiveOrdersOnce ==
    /\ \A bk \in {grid.buys, grid.sells} : \A p \in DOMAIN bk :
           /\ \A i, j \in DOMAIN bk[p] : i # j => bk[p][i] # bk[p][j]
           /\ \A x \in Range(bk[p]) : grid.ord[x].quantity - grid.ord[x].filled > 0
    /\ \A t \in Range(grid.trades) : t[2] > 0
    /\ \A r \in Range(grid.levels.bids) :
           /\ r.total = SumRemaining(grid.ord, Range(grid.buys[r.price]))
           /\ r.count = Cardinality(Range(grid.buys[r.price]))
    /\ \A r \in Range(grid.levels.asks) :
           /\ r.total = SumRemaining(grid.ord, Range(grid.sells[r.price]))
           /\ r.count = Cardinality(Range(grid.sells[r.price]))

\* the sum of the quantities of a list of (side, price, qty) trades
RECURSIVE SumTradeQty(_)
SumTradeQty(ts) == IF ts = <<>> THEN 0 ELSE Head(ts).qty + SumTradeQty(Tail(ts))

\* C30: in the engine of orderbook_full, after any sequence of add_order calls
\* with qty > 0 every stored bid and ask level has a quantity > 0, best_bid()
\* is below best_ask() whenever neither is None, and for each call qty is the
\* sum of the quantities of the returned trades plus the amount the call added
\* to the caller's own side at the order price.
C30_AggregatedBookIsSound ==
    [][/\ \A p \in DOMAIN full'.bids : full'.bids[p] > 0
       /\ \A p \in DOMAIN full'.asks : full'.asks[p] > 0
       /\ (best_bid(full') # None /\ best_ask(full') # None) => best_bid(full') < best_ask(full')
       /\ full'.calls # full.calls
              => LET c == full'.call
                 IN c.qty = SumTradeQty(full'.ret)
                               + level_qty(own_levels(full', c.side), c.price)
                               - level_qty(own_levels(full, c.side), c.price)]_vars

\* an order traded with the best opposing level, rested what was left of it
\* at its own price, and left a level on the opposing side
C30_Witness ==
    /\ full.ret # <<>>
    /\ 0 < SumTradeQty(full.ret) /\ SumTradeQty(full.ret) < full.call.qty
    /\ full.call.price \in DOMAIN own_levels(full, full.call.side)
    /\ DOMAIN full.bids # {} /\ DOMAIN full.asks # {}

====
